---- MODULE Spec2Model ----
(***************************************************************************)
(* Model of the mblock module (src/src/mblock.c): the lifecycle (alloc,     *)
(* realloc, find_get, put, commit, abort, delete) and the transfer path of *)
(* one mblock layout shared by several threads, plus an mlog layout and    *)
(* the NULL handle, which mblock2layout() must reject.                     *)
(*                                                                         *)
(* Every read of a shared field that the code makes outside the object    *)
(* lock (layout->eld_mblen at lines 386, 339, 395 and 335) is a step of   *)
(* its own, so that the model has every interleaving the code has.        *)
(***************************************************************************)
EXTENDS Integers, Sequences, FiniteSets, TLC

(* ------------------------------ bounds -------------------------------- *)

\* number of threads calling into the module concurrently
NThreads == 2

\* largest mblock capacity, in pages
MaxCapPages == 2

\* largest transfer length, in pages
MaxLenPages == 1

\* largest reference count of a record: the directory's reference and the
\* callers' one
MaxRef == 2

(* --------------------------- program constants ------------------------ *)

PAGE_SIZE == 4096

\* named by the comment of the read bound check
MCACHE_RA_PAGES_MAX == 32

\* merr_t values: 0 and merr(errno)
OK == "OK"
EINVAL == "EINVAL"
EALREADY == "EALREADY"
EAGAIN == "EAGAIN"
EBUSY == "EBUSY"
EIO == "EIO"
ENOENT == "ENOENT"
ENOSPC == "ENOSPC"
EBUG == "EBUG"

\* layout state bits
PMD_LYT_COMMITTED == "PMD_LYT_COMMITTED"
PMD_LYT_ABORTING == "PMD_LYT_ABORTING"

MPOOL_OP_READ == "MPOOL_OP_READ"
MPOOL_OP_WRITE == "MPOOL_OP_WRITE"

\* object types held in the type field of an object id
OMF_OBJ_MBLOCK == 1
OMF_OBJ_MLOG == 2

\* the handles a caller can pass: NULL, the mblock layout, an mlog layout
NULL_MBH == 0
MBLOCK_MBH == 1
MLOG_MBH == 2
\* the caller's handle variable when the call did not store to it
UNSET_MBH == -1

Threads == 1..NThreads
Layouts == {MBLOCK_MBH, MLOG_MBH}
Handles == {NULL_MBH} \cup Layouts

Caps == {k * PAGE_SIZE : k \in 1..MaxCapPages}
\* pdi_optiosz of the device; a layout's capacity is a multiple of it
OptIoSizes == {PAGE_SIZE, 2 * PAGE_SIZE}
Lens == {k * PAGE_SIZE : k \in 0..MaxLenPages}
\* the length of an mcache read-ahead request (MCACHE_RA_PAGES_MAX pages)
MCACHE_RA_LEN == MCACHE_RA_PAGES_MAX * PAGE_SIZE
ReadLens == Lens \cup {MCACHE_RA_LEN}
\* loff_t is signed: one negative offset, one that is not page aligned, and
\* every page boundary below the largest capacity
ReadOffs == {-PAGE_SIZE, PAGE_SIZE + 512} \cup {k * PAGE_SIZE : k \in 0..(MaxCapPages - 1)}

\* eld_mblen can pass the capacity only by the writes in flight when it
\* reaches it, each of which adds at most MaxLenPages
MaxMediaPages == MaxCapPages + NThreads * MaxLenPages
MediaPages == 0..(MaxMediaPages - 1)

VARIABLES
    layout,   \* [Layouts -> pmd_layout]: eld_objid, eld_state, eld_mblen, cap, pdi_optiosz, pdi_fua,
              \* eld_ref (0: no record), cached (data in the device's volatile write cache)
    rwsem,    \* [Layouts -> [wr : thread or 0, rd : set of threads]]: the object lock
    media,    \* [MediaPages -> id of the write whose data the page holds, 0: none]
    applog,   \* history: the ids of the successful writes, one entry per page appended
    th        \* [Threads -> the call the thread is in and its local variables]

vars == <<layout, rwsem, media, applog, th>>

(* ------------------------------ helpers ------------------------------- *)

\* the type field of an object id
pmd_objid_type(objid) == (objid \div 256) % 16

MkObjid(type, uniq) == uniq * 4096 + type * 256

MBLOCK_OBJID == MkObjid(OMF_OBJ_MBLOCK, 1)
UNKNOWN_OBJID == MkObjid(OMF_OBJ_MBLOCK, 2)
MLOG_OBJID == MkObjid(OMF_OBJ_MLOG, 1)

\* the object ids a caller can pass: 0, the id of the model's mblock, an
\* mblock id the directory does not know, the id of the mlog
Objids ==
    {0, MBLOCK_OBJID, UNKNOWN_OBJID, MLOG_OBJID}

mblock_objid(objid) == objid # 0 /\ pmd_objid_type(objid) = OMF_OBJ_MBLOCK

\* mutant: the cast without the check of the record's id
mblock2layout_cast(mbh) == mbh

\* NULL_MBH when the handle does not resolve
mblock2layout(mbh) ==
    IF mbh = NULL_MBH THEN NULL_MBH
    ELSE IF mblock_objid(layout[mbh].eld_objid) THEN mbh ELSE NULL_MBH

pmd_layout_cap_get(l) == layout[l].cap

mblock_optimal_iosz_get(l) == layout[l].pdi_optiosz

PAGE_ALIGNED(x) == x % PAGE_SIZE = 0

\* boff + len > lim as C evaluates it: loff_t + size_t is a 64 bit unsigned
\* sum, so a negative boff wraps to a huge value unless len brings the sum
\* back to 0 or above (len < 2^63 by the iovcnt contract)
U64SumExceeds(boff, len, lim) ==
    IF boff + len < 0 THEN TRUE ELSE boff + len > lim

\* mutant: the bound check is skipped for a read-ahead length
read_argcheck_ra(mblock_cap, boff, len, mblen) ==
    IF ~PAGE_ALIGNED(boff) THEN EINVAL
    ELSE IF mblock_cap <= boff THEN EINVAL
    ELSE IF len # MCACHE_RA_LEN /\ U64SumExceeds(boff, len, mblen) THEN EINVAL
    ELSE OK

\* the read branch of mblock_rw_argcheck; mblen: the value of
\* layout->eld_mblen that the check reads
read_argcheck(mblock_cap, boff, len, mblen) ==
    IF ~PAGE_ALIGNED(boff) THEN EINVAL
    ELSE IF mblock_cap <= boff THEN EINVAL
    ELSE IF U64SumExceeds(boff, len, mblen) THEN EINVAL
    ELSE OK

\* mutant: no check for a write past the end of the allocated space
write_argcheck_nobound(mblock_cap, opt_iosz, boff, len, mblen) ==
    IF boff # mblen THEN EINVAL
    ELSE IF boff % opt_iosz # 0 THEN EINVAL
    ELSE OK

\* the write branch of mblock_rw_argcheck
write_argcheck(mblock_cap, opt_iosz, boff, len, mblen) ==
    IF boff # mblen THEN EINVAL
    ELSE IF boff % opt_iosz # 0 THEN EINVAL
    ELSE IF len + boff > mblock_cap THEN EINVAL
    ELSE OK

\* mutant: the length 0 return comes before the checks
mblock_rw_argcheck_len0(l, boff, rw, len, mblen) ==
    LET mblock_cap == pmd_layout_cap_get(l)
        opt_iosz == mblock_optimal_iosz_get(l)
    IN  IF len = 0 THEN OK
        ELSE IF rw = MPOOL_OP_READ
        THEN read_argcheck(mblock_cap, boff, len, mblen)
        ELSE write_argcheck(mblock_cap, opt_iosz, boff, len, mblen)

mblock_rw_argcheck(l, boff, rw, len, mblen) ==
    LET mblock_cap == pmd_layout_cap_get(l)
        opt_iosz == mblock_optimal_iosz_get(l)
    IN  IF rw = MPOOL_OP_READ
        THEN read_argcheck(mblock_cap, boff, len, mblen)
        ELSE write_argcheck(mblock_cap, opt_iosz, boff, len, mblen)

\* mutant: the write does not look at the committed bit
write_may_transfer_always(state) == TRUE

\* line 403: the write transfers unless the committed bit is set
write_may_transfer(state) == PMD_LYT_COMMITTED \notin state

\* mutant: the write returns err whatever the state
write_retval_err(state, err) == err

\* mutant: the write after the commit is reported as an invalid argument
write_retval_einval(state, err) ==
    IF PMD_LYT_COMMITTED \notin state THEN err ELSE EINVAL

\* line 416
write_retval(state, err) == IF PMD_LYT_COMMITTED \notin state THEN err ELSE EALREADY

\* lines 407-410: the raw write carries REQ_FUA on a device with pdi_fua;
\* without it the data may stay in the device's volatile cache
write_cached(cached, fua) == IF fua THEN cached ELSE TRUE

\* mutant: written_len advances whatever the raw write returned
write_mblen_always(mblen, len, err) == mblen + len

\* lines 411-412: if (!err) layout->eld_mblen += len
write_mblen(mblen, len, err) == IF err = OK THEN mblen + len ELSE mblen

\* mutant: the unlock sits inside the branch of the transfer
write_unlocks_in_branch(state) == PMD_LYT_COMMITTED \notin state

\* line 414: pmd_obj_wrunlock follows the if, on every path
write_unlocks(state) == TRUE

\* mutant: the read does not look at the committed bit
read_may_transfer_always(state) == TRUE

\* line 460: the read transfers when the committed bit is set
read_may_transfer(state) == PMD_LYT_COMMITTED \in state

\* mutant: the read returns err whatever the state
read_retval_err(state, err) == err

\* line 464
read_retval(state, err) == IF PMD_LYT_COMMITTED \in state THEN err ELSE EAGAIN

\* the property snapshot
mblock_getprops_cmn(l) ==
    [mpr_objid |-> layout[l].eld_objid,
     mpr_alloc_cap |-> pmd_layout_cap_get(l),
     mpr_write_len |-> layout[l].eld_mblen,
     mpr_optimal_wrsz |-> mblock_optimal_iosz_get(l),
     mpr_iscommitted |-> PMD_LYT_COMMITTED \in layout[l].eld_state]

NoProps ==
    [mpr_objid |-> 0, mpr_alloc_cap |-> 0, mpr_write_len |-> 0,
     mpr_optimal_wrsz |-> 0, mpr_iscommitted |-> FALSE]

\* the pages of [boff, boff + len)
PagesOf(boff, len) ==
    {p \in (-1)..MaxMediaPages : boff <= p * PAGE_SIZE /\ p * PAGE_SIZE < boff + len}

\* what a page of the device holds: pages outside the mblock's zone hold
\* data that no mblock_write put there (-1)
MediaAt(p) == IF p \in MediaPages THEN media[p] ELSE -1

\* id of the next successful write
NextWriteId == IF Len(applog) = 0 THEN 1 ELSE applog[Len(applog)] + 1

\* outcomes of the raw transfer and of the device flush
RawResults == {OK, EIO}

\* object lock
WrLockFree(l) == rwsem[l].wr = 0 /\ rwsem[l].rd = {}
RdLockFree(l) == rwsem[l].wr = 0

\* a thread outside the module
Idle ==
    [pc |-> "idle", op |-> "none", mbh |-> NULL_MBH, len |-> 0, boff |-> 0,
     arg |-> 0, ret |-> OK, prop |-> NoProps, data |-> <<>>,
     c0 |-> FALSE, xfer |-> FALSE, out |-> UNSET_MBH]

Call(op, mbh, len, boff) ==
    [Idle EXCEPT !.op = op, !.mbh = mbh, !.len = len, !.boff = boff,
                 !.c0 = IF mbh \in Layouts
                        THEN PMD_LYT_COMMITTED \in layout[mbh].eld_state
                        ELSE FALSE]

\* the call has returned ret: its arguments, the eld_mblen it validated
\* them against, whether the mblock was committed when it was made and
\* whether it issued a raw transfer stay visible until the caller moves on
Done(r, ret) ==
    [Idle EXCEPT !.pc = "done", !.ret = ret, !.op = r.op, !.mbh = r.mbh,
                 !.len = r.len, !.boff = IF r.op = "read" THEN r.boff ELSE 0,
                 !.arg = r.arg, !.c0 = r.c0, !.xfer = r.xfer, !.prop = r.prop,
                 !.data = r.data, !.out = r.out]

\* the handles a caller can pass: NULL, and the records it holds a
\* reference to (a handle is not used after its release or its delete)
CallerHandles ==
    {h \in Handles : h \in Layouts => layout[h].eld_ref >= 2}

\* another thread is inside a call on record l
InUseByOther(t, l) ==
    \E u \in Threads \ {t} : th[u].mbh = l /\ th[u].pc \notin {"idle", "done"}

\* the arguments that matter: none when the handle does not resolve
ArgsOf(mbh, lens, boffs) ==
    IF mblock2layout(mbh) = NULL_MBH THEN {<<0, 0>>} ELSE lens \X boffs

TypeOK ==
    /\ \A l \in Layouts :
        /\ layout[l].eld_state \subseteq {PMD_LYT_COMMITTED, PMD_LYT_ABORTING}
        /\ layout[l].eld_mblen \in Nat
        /\ layout[l].cap \in Caps
        /\ layout[l].eld_ref \in 0..MaxRef
        /\ layout[l].cached \in BOOLEAN
        /\ rwsem[l].wr \in {0} \cup Threads
        /\ rwsem[l].rd \subseteq Threads
    /\ \A t \in Threads :
        /\ th[t].mbh \in Handles
        /\ th[t].out \in {UNSET_MBH} \cup Handles

(* ------------------------------- Init --------------------------------- *)

Init ==
    /\ \E cap \in Caps, opt \in OptIoSizes, fua \in BOOLEAN :
        /\ cap % opt = 0
        /\ layout = [l \in Layouts |->
                    [eld_objid |-> IF l = MBLOCK_MBH THEN MBLOCK_OBJID ELSE MLOG_OBJID,
                     eld_state |-> {},
                     eld_mblen |-> 0,
                     cap |-> cap,
                     pdi_optiosz |-> opt,
                     pdi_fua |-> fua,
                     eld_ref |-> IF l = MBLOCK_MBH THEN 0 ELSE 2,
                     cached |-> FALSE]]
    /\ rwsem = [l \in Layouts |-> [wr |-> 0, rd |-> {}]]
    /\ media = [p \in MediaPages |-> 0]
    /\ applog = <<>>
    /\ th = [t \in Threads |-> Idle]

(* --------------------------- mblock_write ----------------------------- *)

\* lines 380-386: resolve the handle and evaluate the argument
\* layout->eld_mblen of the call of mblock_rw_argcheck
WriteEnter(t) ==
    /\ th[t].pc = "idle"
    /\ \E mbh \in CallerHandles : \E a \in ArgsOf(mbh, Lens, {0}) :
        LET len == a[1]
            c == Call("write", mbh, len, 0)
            l == mblock2layout(mbh)
        IN  th' = [th EXCEPT ![t] =
                IF l = NULL_MBH THEN Done(c, EINVAL)
                ELSE [c EXCEPT !.pc = "w_argcheck", !.arg = layout[l].eld_mblen]]
    /\ UNCHANGED <<layout, rwsem, media, applog>>

\* lines 386-393: mblock_rw_argcheck, which reads eld_mblen again, and the
\* length 0 return
WriteArgcheck(t) ==
    /\ th[t].pc = "w_argcheck"
    /\ LET r == th[t]
           err == mblock_rw_argcheck(r.mbh, r.arg, MPOOL_OP_WRITE, r.len,
                                     layout[r.mbh].eld_mblen)
       IN  th' = [th EXCEPT ![t] =
                IF err # OK THEN Done(r, err)
                ELSE IF r.len = 0 THEN Done(r, OK)
                ELSE [r EXCEPT !.pc = "w_boff"]]
    /\ UNCHANGED <<layout, rwsem, media, applog>>

\* line 395: boff = layout->eld_mblen
WriteBoff(t) ==
    /\ th[t].pc = "w_boff"
    /\ th' = [th EXCEPT ![t] = [th[t] EXCEPT !.pc = "w_lock",
                                             !.boff = layout[th[t].mbh].eld_mblen]]
    /\ UNCHANGED <<layout, rwsem, media, applog>>

\* mutant: the write goes on without the lock
WriteLock_skipped(t) ==
    /\ th[t].pc = "w_lock"
    /\ th' = [th EXCEPT ![t].pc = "w_locked"]
    /\ UNCHANGED <<layout, rwsem, media, applog>>

\* line 401: pmd_obj_wrlock
WriteLock(t) ==
    /\ th[t].pc = "w_lock"
    /\ WrLockFree(th[t].mbh)
    /\ rwsem' = [rwsem EXCEPT ![th[t].mbh].wr = t]
    /\ th' = [th EXCEPT ![t].pc = "w_locked"]
    /\ UNCHANGED <<layout, media, applog>>

\* lines 402-416: under the lock, the state check, the raw write at boff
\* and the advance of eld_mblen; then pmd_obj_wrunlock and the return value
\* (err is still the 0 of the argument check when no transfer is made)
WriteLocked(t) ==
    /\ th[t].pc = "w_locked"
    /\ LET r == th[t]
           l == r.mbh
           state == layout[l].eld_state
       IN  IF ~write_may_transfer(state)
           THEN /\ th' = [th EXCEPT ![t] = Done(r, write_retval(state, OK))]
                /\ UNCHANGED <<layout, media, applog>>
           ELSE \E err \in RawResults :
                /\ th' = [th EXCEPT ![t] =
                            Done([r EXCEPT !.xfer = TRUE], write_retval(state, err))]
                /\ layout' = [layout EXCEPT
                                ![l].eld_mblen = write_mblen(@, r.len, err),
                                ![l].cached = IF err = OK
                                              THEN write_cached(@, layout[l].pdi_fua)
                                              ELSE @]
                /\ IF err = OK
                   THEN /\ media' = [p \in MediaPages |->
                                        IF p \in PagesOf(r.boff, r.len)
                                        THEN NextWriteId ELSE media[p]]
                        /\ applog' = applog \o [i \in 1..(r.len \div PAGE_SIZE) |-> NextWriteId]
                   ELSE UNCHANGED <<media, applog>>
    /\ rwsem' = IF write_unlocks(layout[th[t].mbh].eld_state)
                THEN [rwsem EXCEPT ![th[t].mbh].wr = 0]
                ELSE rwsem

(* ---------------------------- mblock_read ----------------------------- *)

\* lines 435-448: resolve the handle, mblock_rw_argcheck (one read of
\* eld_mblen, line 335) and the length 0 return
ReadEnter(t) ==
    /\ th[t].pc = "idle"
    /\ \E mbh \in CallerHandles : \E a \in ArgsOf(mbh, ReadLens, ReadOffs) :
        LET len == a[1]
            boff == a[2]
            c == Call("read", mbh, len, boff)
            l == mblock2layout(mbh)
        IN  th' = [th EXCEPT ![t] =
                IF l = NULL_MBH THEN Done(c, EINVAL)
                ELSE LET r == [c EXCEPT !.arg = layout[l].eld_mblen]
                         err == mblock_rw_argcheck(l, boff, MPOOL_OP_READ, len,
                                                   layout[l].eld_mblen)
                     IN  IF err # OK THEN Done(r, err)
                         ELSE IF len = 0 THEN Done(r, OK)
                         ELSE [r EXCEPT !.pc = "r_lock"]]
    /\ UNCHANGED <<layout, rwsem, media, applog>>

\* line 458: pmd_obj_rdlock
ReadLock(t) ==
    /\ th[t].pc = "r_lock"
    /\ RdLockFree(th[t].mbh)
    /\ rwsem' = [rwsem EXCEPT ![th[t].mbh].rd = @ \cup {t}]
    /\ th' = [th EXCEPT ![t].pc = "r_locked"]
    /\ UNCHANGED <<layout, media, applog>>

\* lines 459-464: under the lock, the state check and the raw read; then
\* pmd_obj_rdunlock and the return value
ReadLocked(t) ==
    /\ th[t].pc = "r_locked"
    /\ LET r == th[t]
           l == r.mbh
           state == layout[l].eld_state
           first == CHOOSE p \in PagesOf(r.boff, r.len) :
                        \A q \in PagesOf(r.boff, r.len) : p <= q
       IN  IF read_may_transfer(state)
           THEN \E err \in RawResults :
                th' = [th EXCEPT ![t] =
                        Done([r EXCEPT !.xfer = TRUE,
                                       !.data = IF err = OK
                                                THEN [i \in 1..(r.len \div PAGE_SIZE) |->
                                                        MediaAt(first + i - 1)]
                                                ELSE <<>>],
                             read_retval(state, err))]
           ELSE th' = [th EXCEPT ![t] = Done(r, read_retval(state, OK))]
    /\ rwsem' = [rwsem EXCEPT ![th[t].mbh].rd = @ \ {t}]
    /\ UNCHANGED <<layout, media, applog>>

(* -------------------------- mblock_get_props -------------------------- *)

\* lines 475-479
PropsEnter(t) ==
    /\ th[t].pc = "idle"
    /\ \E mbh \in CallerHandles :
        LET c == Call("props", mbh, 0, 0)
        IN  th' = [th EXCEPT ![t] =
                IF mblock2layout(mbh) = NULL_MBH THEN Done(c, EINVAL)
                ELSE [c EXCEPT !.pc = "g_lock"]]
    /\ UNCHANGED <<layout, rwsem, media, applog>>

\* line 481
PropsLock(t) ==
    /\ th[t].pc = "g_lock"
    /\ RdLockFree(th[t].mbh)
    /\ rwsem' = [rwsem EXCEPT ![th[t].mbh].rd = @ \cup {t}]
    /\ th' = [th EXCEPT ![t].pc = "g_locked"]
    /\ UNCHANGED <<layout, media, applog>>

\* lines 482-485: the snapshot under the lock, then pmd_obj_rdunlock
PropsLocked(t) ==
    /\ th[t].pc = "g_locked"
    /\ th' = [th EXCEPT ![t] =
                Done([th[t] EXCEPT !.prop = mblock_getprops_cmn(th[t].mbh)], OK)]
    /\ rwsem' = [rwsem EXCEPT ![th[t].mbh].rd = @ \ {t}]
    /\ UNCHANGED <<layout, media, applog>>

(* --------------------------- mblock_commit ---------------------------- *)

\* mutant: the commit never flushes
commit_flushes_never(fua) == FALSE

\* line 225: the flush is issued unless the device has pdi_fua
commit_flushes(fua) == ~fua

\* lines 218-225
CommitEnter(t) ==
    /\ th[t].pc = "idle"
    /\ \E mbh \in CallerHandles :
        LET c == Call("commit", mbh, 0, 0)
            l == mblock2layout(mbh)
        IN  th' = [th EXCEPT ![t] =
                IF l = NULL_MBH THEN Done(c, EINVAL)
                ELSE [c EXCEPT !.pc = IF commit_flushes(layout[l].pdi_fua)
                                      THEN "c_flush" ELSE "c_commit"]]
    /\ UNCHANGED <<layout, rwsem, media, applog>>

\* a successful flush empties the volatile cache of the device, which all
\* the records of the model are on
pd_dev_flush == [l \in Layouts |-> [layout[l] EXCEPT !.cached = FALSE]]

\* lines 226-228: pd_dev_flush
CommitFlush(t) ==
    /\ th[t].pc = "c_flush"
    /\ \E err \in RawResults :
        /\ th' = [th EXCEPT ![t] =
                    IF err # OK THEN Done(th[t], err)
                    ELSE [th[t] EXCEPT !.pc = "c_commit"]]
        /\ layout' = IF err # OK THEN layout ELSE pd_dev_flush
    /\ UNCHANGED <<rwsem, media, applog>>

\* the directory's commit: atomic with respect to the holders of the object
\* lock; EBUSY when the aborting flag is set, else the committed flag is set
pmd_obj_commit(l) ==
    IF PMD_LYT_ABORTING \in layout[l].eld_state
    THEN [err |-> EBUSY, state |-> layout[l].eld_state]
    ELSE [err |-> OK, state |-> layout[l].eld_state \cup {PMD_LYT_COMMITTED}]

\* mutant: the commit reports success whatever the directory said
commit_retval_ok(err) == OK

\* lines 233-239: the directory's error is returned as it is
commit_retval(err) == IF err # OK THEN err ELSE OK

\* lines 232-239
CommitObj(t) ==
    /\ th[t].pc = "c_commit"
    /\ WrLockFree(th[t].mbh)
    /\ LET res == pmd_obj_commit(th[t].mbh)
       IN  /\ layout' = [layout EXCEPT ![th[t].mbh].eld_state = res.state]
           /\ th' = [th EXCEPT ![t] = Done(th[t], commit_retval(res.err))]
    /\ UNCHANGED <<rwsem, media, applog>>

(* ---------------------------- mblock_abort ---------------------------- *)

\* lines 247-251
AbortEnter(t) ==
    /\ th[t].pc = "idle"
    /\ \E mbh \in CallerHandles :
        LET c == Call("abort", mbh, 0, 0)
        IN  th' = [th EXCEPT ![t] =
                IF mblock2layout(mbh) = NULL_MBH THEN Done(c, EINVAL)
                ELSE [c EXCEPT !.pc = "a_abort"]]
    /\ UNCHANGED <<layout, rwsem, media, applog>>

\* the directory's abort: discards an uncommitted object; an object that is
\* committed or already aborted is not one
pmd_obj_abort(l) ==
    IF layout[l].eld_state # {}
    THEN [err |-> EINVAL, state |-> layout[l].eld_state]
    ELSE [err |-> OK, state |-> {PMD_LYT_ABORTING}]

\* lines 253-260
AbortObj(t) ==
    /\ th[t].pc = "a_abort"
    /\ WrLockFree(th[t].mbh)
    /\ LET res == pmd_obj_abort(th[t].mbh)
       IN  /\ layout' = [layout EXCEPT ![th[t].mbh].eld_state = res.state]
           /\ th' = [th EXCEPT ![t] = Done(th[t], res.err)]
    /\ UNCHANGED <<rwsem, media, applog>>

(* ------------- mblock_alloc, mblock_realloc, mblock_find_get ---------- *)

\* the directory has no record for the mblock yet
Unallocated(l) ==
    layout[l].eld_ref = 0 /\ layout[l].eld_state = {} /\ layout[l].eld_mblen = 0

\* the directory's allocation of a new mblock: the model's record while it
\* is unallocated, else no space; and the outcome the defensive check of
\* mblock_alloc_cmn is there for, success without a record
pmd_obj_alloc ==
    (IF Unallocated(MBLOCK_MBH)
     THEN {[err |-> OK, layout |-> MBLOCK_MBH]}
     ELSE {[err |-> ENOSPC, layout |-> NULL_MBH]})
    \cup {[err |-> OK, layout |-> NULL_MBH]}

\* the directory's allocation of the record of a given id
pmd_obj_realloc(objid) ==
    (IF objid = layout[MBLOCK_MBH].eld_objid /\ Unallocated(MBLOCK_MBH)
     THEN {[err |-> OK, layout |-> MBLOCK_MBH]}
     ELSE {[err |-> ENOENT, layout |-> NULL_MBH]})
    \cup {[err |-> OK, layout |-> NULL_MBH]}

\* the directory's lookup: the live record of that id, NULL when there is
\* none (never allocated, deleted or discarded by an abort)
pmd_obj_find_get(objid) ==
    IF /\ objid = layout[MBLOCK_MBH].eld_objid
       /\ layout[MBLOCK_MBH].eld_ref >= 1
       /\ PMD_LYT_ABORTING \notin layout[MBLOCK_MBH].eld_state
    THEN MBLOCK_MBH ELSE NULL_MBH

\* the reference the caller gets with the record
pmd_obj_get(l) ==
    IF l = NULL_MBH THEN layout
    ELSE [layout EXCEPT ![l].eld_ref = IF @ = 0 THEN 2 ELSE @ + 1]

\* line 152
realloc_objid_ok(objid) == mblock_objid(objid)

\* mutant: the handle is stored whatever the directory returned
alloc_retval_ok(l) == OK

\* line 118: success without a record is an internal error
alloc_retval(l) == IF l = NULL_MBH THEN EBUG ELSE OK

\* line 174
find_get_retval(l) == IF l = NULL_MBH THEN ENOENT ELSE OK

\* lines 96-127 after the directory's answer res: the caller's handle is
\* set to NULL at line 99 and to the record at line 127
AllocCmnAfter(c, res, wantprop) ==
    IF res.err # OK THEN Done([c EXCEPT !.out = NULL_MBH], res.err)
    ELSE IF alloc_retval(res.layout) # OK
    THEN Done([c EXCEPT !.out = NULL_MBH], alloc_retval(res.layout))
    ELSE IF wantprop
    THEN [c EXCEPT !.out = NULL_MBH, !.mbh = res.layout, !.pc = "n_lock"]
    ELSE Done([c EXCEPT !.out = res.layout, !.mbh = res.layout], OK)

\* mblock_alloc, lines 133-141 and 96-119
AllocEnter(t) ==
    /\ th[t].pc = "idle"
    /\ \E mp_ok, wantprop \in BOOLEAN :
        LET c == Call("alloc", NULL_MBH, 0, 0)
        IN  IF ~mp_ok
            THEN /\ th' = [th EXCEPT ![t] = Done(c, EINVAL)]
                 /\ UNCHANGED layout
            ELSE \E res \in pmd_obj_alloc :
                 /\ th' = [th EXCEPT ![t] = AllocCmnAfter(c, res, wantprop)]
                 /\ layout' = IF res.err = OK THEN pmd_obj_get(res.layout) ELSE layout
    /\ UNCHANGED <<rwsem, media, applog>>

\* mblock_realloc, lines 144-156 and 96-119
ReallocEnter(t) ==
    /\ th[t].pc = "idle"
    /\ \E objid \in Objids, mp_ok, wantprop \in BOOLEAN :
        LET c == [Call("realloc", NULL_MBH, 0, 0) EXCEPT !.arg = objid]
        IN  IF ~realloc_objid_ok(objid) \/ ~mp_ok
            THEN /\ th' = [th EXCEPT ![t] = Done(c, EINVAL)]
                 /\ UNCHANGED layout
            ELSE \E res \in pmd_obj_realloc(objid) :
                 /\ th' = [th EXCEPT ![t] = AllocCmnAfter(c, res, wantprop)]
                 /\ layout' = IF res.err = OK THEN pmd_obj_get(res.layout) ELSE layout
    /\ UNCHANGED <<rwsem, media, applog>>

\* mblock_find_get, lines 159-176 and, with no prop, 183-185
FindGetEnter(t) ==
    /\ th[t].pc = "idle"
    /\ \E objid \in Objids, wantprop \in BOOLEAN :
        LET c == [Call("find_get", NULL_MBH, 0, 0) EXCEPT !.arg = objid, !.out = NULL_MBH]
            l == pmd_obj_find_get(objid)
        IN  IF ~mblock_objid(objid)
            THEN /\ th' = [th EXCEPT ![t] = Done(c, EINVAL)]
                 /\ UNCHANGED layout
            ELSE /\ l # NULL_MBH => layout[l].eld_ref < MaxRef
                 /\ th' = [th EXCEPT ![t] =
                            IF find_get_retval(l) # OK THEN Done(c, find_get_retval(l))
                            ELSE IF wantprop THEN [c EXCEPT !.mbh = l, !.pc = "n_lock"]
                            ELSE Done([c EXCEPT !.out = l, !.mbh = l], OK)]
                 /\ layout' = pmd_obj_get(l)
    /\ UNCHANGED <<rwsem, media, applog>>

\* lines 122 and 178: pmd_obj_rdlock
AllocLock(t) ==
    /\ th[t].pc = "n_lock"
    /\ RdLockFree(th[t].mbh)
    /\ rwsem' = [rwsem EXCEPT ![th[t].mbh].rd = @ \cup {t}]
    /\ th' = [th EXCEPT ![t].pc = "n_locked"]
    /\ UNCHANGED <<layout, media, applog>>

\* lines 123-129 and 179-185: the snapshot under the lock, pmd_obj_rdunlock
\* and the store of the handle
AllocLocked(t) ==
    /\ th[t].pc = "n_locked"
    /\ th' = [th EXCEPT ![t] =
                Done([th[t] EXCEPT !.prop = mblock_getprops_cmn(th[t].mbh),
                                   !.out = th[t].mbh], OK)]
    /\ rwsem' = [rwsem EXCEPT ![th[t].mbh].rd = @ \ {t}]
    /\ UNCHANGED <<layout, media, applog>>

(* ----------------------- mblock_put, mblock_delete -------------------- *)

\* the directory drops the caller's reference
pmd_obj_put(l) == [layout EXCEPT ![l].eld_ref = @ - 1]

\* lines 188-195; the caller does not release a record that another of its
\* threads is using
Put(t) ==
    /\ th[t].pc = "idle"
    /\ \E mbh \in CallerHandles :
        LET c == Call("put", mbh, 0, 0)
            l == mblock2layout(mbh)
        IN  /\ (l # NULL_MBH /\ layout[l].eld_ref = 2) => ~InUseByOther(t, l)
            /\ th' = [th EXCEPT ![t] = Done(c, OK)]
            /\ layout' = IF l # NULL_MBH THEN pmd_obj_put(l) ELSE layout
    /\ UNCHANGED <<rwsem, media, applog>>

\* the directory's delete: removes a committed or aborted record that only
\* the caller refers to
pmd_obj_delete(t, l) ==
    IF layout[l].eld_state = {}
    THEN [err |-> EINVAL, ref |-> layout[l].eld_ref]
    ELSE IF layout[l].eld_ref # 2 \/ InUseByOther(t, l)
    THEN [err |-> EBUSY, ref |-> layout[l].eld_ref]
    ELSE [err |-> OK, ref |-> 0]

\* lines 263-274
Delete(t) ==
    /\ th[t].pc = "idle"
    /\ \E mbh \in CallerHandles :
        LET c == Call("delete", mbh, 0, 0)
            l == mblock2layout(mbh)
        IN  IF l = NULL_MBH
            THEN /\ th' = [th EXCEPT ![t] = Done(c, EINVAL)]
                 /\ UNCHANGED layout
            ELSE LET res == pmd_obj_delete(t, l)
                 IN  /\ th' = [th EXCEPT ![t] = Done(c, res.err)]
                     /\ layout' = [layout EXCEPT ![l].eld_ref = res.ref]
    /\ UNCHANGED <<rwsem, media, applog>>

(* ------------------------------ return -------------------------------- *)

\* the call returns to its caller
Return(t) ==
    /\ th[t].pc = "done"
    /\ th' = [th EXCEPT ![t] = Idle]
    /\ UNCHANGED <<layout, rwsem, media, applog>>

Next ==
    \E t \in Threads :
        \/ WriteEnter(t) \/ WriteArgcheck(t) \/ WriteBoff(t) \/ WriteLock(t)
        \/ WriteLocked(t)
        \/ ReadEnter(t) \/ ReadLock(t) \/ ReadLocked(t)
        \/ PropsEnter(t) \/ PropsLock(t) \/ PropsLocked(t)
        \/ CommitEnter(t) \/ CommitFlush(t) \/ CommitObj(t)
        \/ AbortEnter(t) \/ AbortObj(t)
        \/ AllocEnter(t) \/ ReallocEnter(t) \/ FindGetEnter(t)
        \/ AllocLock(t) \/ AllocLocked(t)
        \/ Put(t) \/ Delete(t)
        \/ Return(t)

Spec == Init /\ [][Next]_vars

\* the steps of thread t inside a call it has made
Proceed(t) ==
    \/ WriteArgcheck(t) \/ WriteBoff(t) \/ WriteLock(t) \/ WriteLocked(t)
    \/ ReadLock(t) \/ ReadLocked(t)
    \/ PropsLock(t) \/ PropsLocked(t)
    \/ CommitFlush(t) \/ CommitObj(t)
    \/ AbortObj(t)
    \/ AllocLock(t) \/ AllocLocked(t)

\* a thread inside a call is scheduled, the calls into the device and the
\* directory terminate, and a thread waiting for the object lock gets it
\* when the lock becomes free again and again (the lock queues its waiters)
Fairness == \A t \in Threads : SF_vars(Proceed(t))

\* the smallest mblock on a device that needs the flush
InitFair ==
    /\ Init
    /\ layout[MBLOCK_MBH].cap = PAGE_SIZE
    /\ ~layout[MBLOCK_MBH].pdi_fua

FairSpec == InitFair /\ [][Next]_vars /\ Fairness

(* ------------------------------ claims -------------------------------- *)

Committed == PMD_LYT_COMMITTED \in layout[MBLOCK_MBH].eld_state
WrittenLen == layout[MBLOCK_MBH].eld_mblen
Capacity == layout[MBLOCK_MBH].cap
OptimalSize == layout[MBLOCK_MBH].pdi_optiosz

\* thread t has returned from op on the mblock and not yet moved on
DoneOn(t, op) == th[t].pc = "done" /\ th[t].op = op /\ th[t].mbh = MBLOCK_MBH

\* the read request passes the validation against written length wl:
\* offset page aligned and below the capacity, and offset + length, a 64 bit
\* unsigned sum, at most wl
ReadArgsValid(boff, len, wl) ==
    /\ boff % PAGE_SIZE = 0
    /\ boff < Capacity
    /\ boff + len >= 0
    /\ boff + len <= wl

\* C1: written_len <= capacity in every reachable state, for every mblock,
\* also with several threads in mblock_write on the same mblock.
WrittenLenWithinCapacity ==
    \A l \in Layouts : layout[l].eld_mblen <= layout[l].cap

\* C2: every raw write of mblock_write is made at the offset that equals
\* written_len at the moment of the transfer (no overwrite, no gap).
AppendAtWrittenLen ==
    [][\A t \in Threads :
        (th[t].pc = "w_locked" /\ th'[t].xfer)
            => th[t].boff = layout[th[t].mbh].eld_mblen]_vars

\* C3 as stated: a write made after the commit fails with AlreadyCommitted,
\* for every length.
WriteAfterCommitAlreadyCommitted ==
    \A t \in Threads :
        (DoneOn(t, "write") /\ th[t].c0) => th[t].ret = EALREADY

\* C3 amended: a write made after the commit transfers nothing; it fails
\* with InvalidArgument when written_len is not a multiple of the optimal
\* size or written_len + length exceeds the capacity, else returns success
\* for length 0, else fails with AlreadyCommitted.
WriteAfterCommit ==
    \A t \in Threads :
        (DoneOn(t, "write") /\ th[t].c0) =>
            /\ ~th[t].xfer
            /\ th[t].ret =
                IF WrittenLen % OptimalSize # 0 \/ th[t].len + WrittenLen > Capacity
                THEN EINVAL
                ELSE IF th[t].len = 0 THEN OK ELSE EALREADY

WriteAfterCommitWitness ==
    \E t \in Threads :
        DoneOn(t, "write") /\ th[t].c0 /\ th[t].len > 0 /\ th[t].ret = EALREADY

\* C4: once the committed flag is set it stays set and written_len and
\* capacity never change, as stored and as a property snapshot that shows
\* the mblock committed reports them.
CommitFreezes ==
    [][/\ Committed =>
            /\ Committed'
            /\ WrittenLen' = WrittenLen
            /\ Capacity' = Capacity
       /\ \A t \in Threads :
            (DoneOn(t, "props")' /\ th'[t].prop.mpr_iscommitted) =>
                /\ th'[t].prop.mpr_write_len = WrittenLen'
                /\ th'[t].prop.mpr_alloc_cap = Capacity']_vars

\* a write that was in flight when the commit happened has returned
CommitFreezesWitness ==
    /\ Committed
    /\ WrittenLen > 0
    /\ \E t \in Threads :
        DoneOn(t, "write") /\ ~th[t].c0 /\ th[t].ret = EALREADY

\* C5 as stated: a read on an uncommitted mblock fails with NotYetCommitted,
\* for every offset and length.
ReadBeforeCommitNotYetCommitted ==
    \A t \in Threads :
        (DoneOn(t, "read") /\ ~Committed) => th[t].ret = EAGAIN

\* C5 amended: a read that fails the validation returns InvalidArgument, a
\* valid read of length 0 returns success, committed or not; a valid read of
\* length > 0 fails with NotYetCommitted, without a transfer, while the
\* mblock is uncommitted, and made after the commit it returns the result
\* of the raw read.
ReadGating ==
    \A t \in Threads :
        DoneOn(t, "read") =>
            LET r == th[t]
                valid == ReadArgsValid(r.boff, r.len, r.arg)
            IN  /\ ~valid => (r.ret = EINVAL /\ ~r.xfer)
                /\ (valid /\ r.len = 0) => (r.ret = OK /\ ~r.xfer)
                /\ (valid /\ r.len > 0 /\ ~Committed) => (r.ret = EAGAIN /\ ~r.xfer)
                /\ (valid /\ r.len > 0 /\ r.c0) => (r.ret \in RawResults /\ r.xfer)
                /\ (r.ret = OK /\ r.len > 0) => Committed

\* the same read before the commit and after it
ReadGatingWitness ==
    \E t, u \in Threads :
        /\ DoneOn(t, "read") /\ DoneOn(u, "read")
        /\ th[t].boff = th[u].boff /\ th[t].len = th[u].len /\ th[t].len > 0
        /\ th[t].ret = EAGAIN /\ ~th[t].c0
        /\ th[u].ret = OK /\ th[u].c0

\* C6 as stated: a transfer of length 0 returns success for every offset
\* and every object state.
ZeroLengthAlwaysSucceeds ==
    \A t \in Threads :
        ((DoneOn(t, "read") \/ DoneOn(t, "write")) /\ th[t].len = 0)
            => th[t].ret = OK

\* C6 amended: a transfer of length 0 changes no state, takes no lock and
\* issues no raw transfer, committed or not, and it returns success exactly
\* when the argument validation passes, else InvalidArgument.
ZeroLengthTransfer ==
    [][\A t \in Threads :
        LET r == th'[t]
        IN  (r.op \in {"read", "write"} /\ r.mbh = MBLOCK_MBH /\ r.len = 0
             /\ r # th[t]) =>
                /\ UNCHANGED <<layout, rwsem, media, applog>>
                /\ r.pc \in {"done", "w_argcheck"}
                /\ r.pc = "done" =>
                    /\ ~r.xfer
                    /\ r.op = "read" =>
                        r.ret = IF ReadArgsValid(r.boff, 0, r.arg) THEN OK ELSE EINVAL
                    /\ r.op = "write" =>
                        r.ret = IF /\ r.arg = WrittenLen
                                   /\ r.arg % OptimalSize = 0
                                   /\ r.arg <= Capacity
                                THEN OK ELSE EINVAL]_vars

\* a length 0 write that succeeds on a committed mblock and a length 0 read
\* that is rejected for its offset
ZeroLengthTransferWitness ==
    \E t, u \in Threads :
        /\ DoneOn(t, "write") /\ th[t].len = 0 /\ th[t].c0 /\ th[t].ret = OK
        /\ DoneOn(u, "read") /\ th[u].len = 0 /\ th[u].ret = EINVAL
        /\ th[u].boff % PAGE_SIZE # 0

\* C7: no raw write is issued for a range that exceeds the capacity and no
\* raw read for a range that exceeds written_len: such a call fails with
\* InvalidArgument and leaves written_len alone.
BoundsEnforcement ==
    [][\A t \in Threads :
        /\ (/\ th[t].pc = "w_locked" /\ th'[t].pc = "done"
            /\ th[t].boff + th[t].len > Capacity) =>
                (~th'[t].xfer /\ th'[t].ret = EINVAL /\ WrittenLen' = WrittenLen)
        /\ (/\ th[t].pc = "r_locked" /\ th'[t].pc = "done"
            /\ th[t].boff + th[t].len > WrittenLen) =>
                (~th'[t].xfer /\ th'[t].ret = EINVAL)]_vars

\* C8 as stated: a read of the read-ahead length is not rejected for
\* extending past the written data.
ReadAheadProbeNotRejected ==
    \A t \in Threads :
        (/\ DoneOn(t, "read")
         /\ th[t].len = MCACHE_RA_LEN
         /\ th[t].boff % PAGE_SIZE = 0
         /\ 0 <= th[t].boff /\ th[t].boff < Capacity) => th[t].ret # EINVAL

\* C8 amended: the check applies to every length: a read that extends
\* past written_len is rejected with InvalidArgument, the read-ahead length
\* included.
ReadPastWrittenRejected ==
    \A t \in Threads :
        (DoneOn(t, "read") /\ th[t].boff + th[t].len > th[t].arg) =>
            (th[t].ret = EINVAL /\ ~th[t].xfer)

\* a read-ahead request on a committed mblock, rejected
ReadPastWrittenRejectedWitness ==
    \E t \in Threads :
        /\ DoneOn(t, "read")
        /\ th[t].len = MCACHE_RA_LEN /\ th[t].boff = 0
        /\ th[t].c0 /\ WrittenLen > 0
        /\ th[t].ret = EINVAL

\* C9 as stated: with written_len = capacity on an uncommitted mblock a
\* further write fails with InvalidArgument, the write of 0 bytes included.
WriteAtCapacityRejected ==
    \A t \in Threads :
        (DoneOn(t, "write") /\ ~Committed /\ th[t].arg = Capacity)
            => th[t].ret = EINVAL

\* C9 amended: a write called with written_len = capacity on an uncommitted
\* mblock issues no transfer and so does not change written_len; with
\* length > 0 it fails with InvalidArgument, with length 0 it returns
\* success (InvalidArgument only when written_len moved meanwhile).
WriteAtCapacity ==
    \A t \in Threads :
        (DoneOn(t, "write") /\ ~th[t].c0 /\ th[t].arg = Capacity) =>
            /\ ~th[t].xfer
            /\ th[t].len > 0 => th[t].ret = EINVAL
            /\ th[t].len = 0 => th[t].ret \in {OK, EINVAL}
            /\ (th[t].len = 0 /\ WrittenLen = Capacity) => th[t].ret = OK

WriteAtCapacityWitness ==
    \E t, u \in Threads :
        /\ ~Committed /\ WrittenLen = Capacity
        /\ DoneOn(t, "write") /\ th[t].arg = Capacity /\ th[t].len = 0
        /\ th[t].ret = OK
        /\ DoneOn(u, "write") /\ th[u].arg = Capacity /\ th[u].len > 0
        /\ th[u].ret = EINVAL

\* C10: on a committed mblock every page below written_len holds the data
\* of the one successful write that appended it, and a successful read of
\* a range of the mblock returns exactly that data.
CommittedDataIsWrittenData ==
    /\ Committed =>
        \A p \in 0..((WrittenLen \div PAGE_SIZE) - 1) :
            p + 1 <= Len(applog) /\ MediaAt(p) = applog[p + 1]
    /\ \A t \in Threads :
        (DoneOn(t, "read") /\ th[t].ret = OK /\ th[t].len > 0 /\ th[t].boff >= 0) =>
            /\ th[t].boff + th[t].len <= Len(applog) * PAGE_SIZE
            /\ th[t].data = SubSeq(applog, (th[t].boff \div PAGE_SIZE) + 1,
                                   (th[t].boff + th[t].len) \div PAGE_SIZE)

Fua == layout[MBLOCK_MBH].pdi_fua
StateFlags == layout[MBLOCK_MBH].eld_state

\* C11: on a device without durable writes mblock_commit issues the flush
\* before the directory commit, and a failed flush ends the call with the
\* flush error, without the directory commit and with the state flags as
\* they were; on a device with durable writes it issues no flush and goes
\* to the directory commit directly. The committed flag is set only by the
\* directory commit.
CommitFlushOrder ==
    [][\A t \in Threads :
        /\ (th[t].pc = "idle" /\ th'[t].op = "commit" /\ th'[t].pc # "done") =>
                th'[t].pc = IF layout[th'[t].mbh].pdi_fua THEN "c_commit" ELSE "c_flush"
        /\ (th[t].pc = "c_flush" /\ th'[t] # th[t]) =>
                /\ ~layout[th[t].mbh].pdi_fua
                /\ \/ th'[t].pc = "c_commit"
                   \/ /\ th'[t].pc = "done" /\ th'[t].ret = EIO
                      /\ \A l \in Layouts : layout'[l].eld_state = layout[l].eld_state
        /\ (th'[t].pc = "c_commit" /\ th[t].pc # "c_commit") =>
                th[t].pc = IF layout[th'[t].mbh].pdi_fua THEN "idle" ELSE "c_flush"
        /\ (~Committed /\ Committed') =>
                \E u \in Threads : th[u].pc = "c_commit" /\ th'[u].pc = "done"]_vars

\* a commit that ended with the flush error on an mblock with data
CommitFlushOrderWitness ==
    /\ ~Fua /\ ~Committed /\ WrittenLen > 0
    /\ \E t \in Threads : DoneOn(t, "commit") /\ th[t].ret = EIO

Aborting == PMD_LYT_ABORTING \in StateFlags

\* C12: a commit that reaches the directory commit with the aborting flag
\* set fails with Busy and does not set the committed flag; no mblock is
\* ever both committed and aborted; no read of length > 0 has succeeded on
\* an aborted mblock.
AbortWinsRace ==
    [][/\ \A t \in Threads :
            (th[t].pc = "c_commit" /\ th'[t].pc = "done"
             /\ PMD_LYT_ABORTING \in layout[th[t].mbh].eld_state) =>
                /\ th'[t].ret = EBUSY
                /\ layout'[th[t].mbh].eld_state = layout[th[t].mbh].eld_state
       /\ \A l \in Layouts :
            ~(PMD_LYT_COMMITTED \in layout'[l].eld_state
              /\ PMD_LYT_ABORTING \in layout'[l].eld_state)
       /\ Aborting' =>
            \A t \in Threads :
                (DoneOn(t, "read")' /\ th'[t].len > 0) =>
                    (th'[t].ret # OK /\ ~th'[t].xfer)]_vars

\* the commit lost to an abort made while it was on its way, and a read
\* made afterwards failed
AbortWinsRaceWitness ==
    /\ Aborting /\ ~Committed /\ WrittenLen > 0
    /\ \E t, u \in Threads :
        /\ DoneOn(t, "commit") /\ th[t].ret = EBUSY
        /\ DoneOn(u, "read") /\ th[u].len > 0 /\ th[u].boff = 0
        /\ th[u].ret = EAGAIN

\* the operations that take a handle and return an error
HandleOps == {"commit", "abort", "delete", "write", "read", "props"}

\* C13: mblock_objid(id) holds exactly when id is not 0 and its type field
\* is mblock; mblock_realloc and mblock_find_get with another id fail with
\* InvalidArgument, leave the directory alone and store no record in the
\* caller's handle; every operation on a handle whose record's id is not an
\* mblock id returns InvalidArgument at once with all state unchanged, and
\* mblock_put on it changes nothing.
IdTypeSafety ==
    [][\A t \in Threads :
            LET r == th'[t]
            IN  /\ (th[t].pc = "idle" /\ r.op \in {"realloc", "find_get"}) =>
                        (mblock_objid(r.arg) <=>
                            (r.arg # 0 /\ (r.arg \div 256) % 16 = OMF_OBJ_MBLOCK))
                /\ (th[t].pc = "idle" /\ r.op \in {"realloc", "find_get"}
                    /\ ~(r.arg # 0 /\ pmd_objid_type(r.arg) = OMF_OBJ_MBLOCK)) =>
                        /\ r.pc = "done" /\ r.ret = EINVAL
                        /\ r.out \notin Layouts
                        /\ UNCHANGED <<layout, rwsem, media, applog>>
                /\ (th[t].pc = "idle" /\ r.op \in HandleOps /\ r.mbh = MLOG_MBH) =>
                        /\ r.pc = "done" /\ r.ret = EINVAL /\ ~r.xfer
                        /\ UNCHANGED <<layout, rwsem, media, applog>>
                /\ (th[t].pc = "idle" /\ r.op = "put" /\ r.mbh = MLOG_MBH) =>
                        UNCHANGED <<layout, rwsem, media, applog>>]_vars

\* a delete through the handle of the mlog and a realloc of the mlog's id,
\* both rejected, on a committed mblock
IdTypeSafetyWitness ==
    /\ Committed
    /\ \E t, u \in Threads :
        /\ th[t].pc = "done" /\ th[t].op = "delete" /\ th[t].mbh = MLOG_MBH
        /\ th[t].ret = EINVAL
        /\ th[u].pc = "done" /\ th[u].op = "realloc" /\ th[u].arg = MLOG_OBJID
        /\ th[u].ret = EINVAL /\ th[u].out = UNSET_MBH

HoldsExclusive(t, l) == rwsem[l].wr = t
HoldsShared(t, l) == t \in rwsem[l].rd

ValidationFailFast ==
    [][\A t \in Threads :
        LET r == th'[t]
        IN  /\ (r.op \in {"read", "write"} /\ r.pc = "done" /\ th[t].pc # "done"
                /\ r.ret = EINVAL) =>
                    /\ th[t].pc \in {"idle", "w_argcheck"}
                    /\ ~r.xfer
                    /\ \A l \in Layouts : ~HoldsExclusive(t, l) /\ ~HoldsShared(t, l)
                    /\ UNCHANGED <<layout, rwsem, media, applog>>
            /\ (th[t].pc = "idle" /\ r.pc = "w_argcheck") =>
                    UNCHANGED <<layout, rwsem, media, applog>>]_vars

\* a write rejected for exceeding the capacity and a read rejected for its
\* offset, on an uncommitted mblock with data
ValidationFailFastWitness ==
    /\ ~Committed /\ WrittenLen > 0
    /\ \E t, u \in Threads :
        /\ DoneOn(t, "write") /\ th[t].ret = EINVAL /\ th[t].len > 0
        /\ th[t].arg = WrittenLen /\ th[t].arg + th[t].len > Capacity
        /\ DoneOn(u, "read") /\ th[u].ret = EINVAL /\ th[u].boff % PAGE_SIZE # 0

\* C16: the step of a mblock_write that returns success (length > 0, the
\* mblock uncommitted) advances written_len by exactly its length; when the
\* raw write fails the call returns the raw error and written_len stays;
\* written_len never decreases and changes only in the step of a
\* mblock_write that returns success on an uncommitted mblock.
WriteAdvances ==
    [][/\ \A t \in Threads :
            (th[t].pc = "w_locked" /\ th'[t].pc = "done") =>
                LET l == th[t].mbh
                    r == th'[t]
                IN  /\ r.ret = OK =>
                            /\ r.xfer /\ r.len > 0
                            /\ PMD_LYT_COMMITTED \notin layout[l].eld_state
                            /\ layout'[l].eld_mblen = layout[l].eld_mblen + r.len
                    /\ (r.xfer /\ r.ret # OK) =>
                            /\ r.ret \in RawResults
                            /\ layout'[l].eld_mblen = layout[l].eld_mblen
                    /\ ~r.xfer => layout'[l].eld_mblen = layout[l].eld_mblen
       /\ \A l \in Layouts :
            /\ layout'[l].eld_mblen >= layout[l].eld_mblen
            /\ layout'[l].eld_mblen # layout[l].eld_mblen =>
                    /\ PMD_LYT_COMMITTED \notin layout[l].eld_state
                    /\ \E t \in Threads :
                        /\ th[t].pc = "w_locked" /\ th[t].mbh = l
                        /\ th'[t].pc = "done" /\ th'[t].ret = OK]_vars

\* one write has succeeded and another has returned the error of the raw
\* write, before the commit
WriteAdvancesWitness ==
    /\ ~Committed
    /\ \E t, u \in Threads :
        /\ DoneOn(t, "write") /\ th[t].ret = OK /\ th[t].len > 0
        /\ WrittenLen = th[t].len
        /\ DoneOn(u, "write") /\ th[u].ret = EIO /\ th[u].xfer

InCall(t) == th[t].pc \notin {"idle", "done"}

\* C17: a thread that is not inside a call holds no object lock, so no
\* lock is held when no operation is in progress; a thread holds at most
\* one object lock at a time; and, under fair scheduling, every write, read
\* and property query that has been invoked returns.
LocksReleased ==
    /\ [](\A t \in Threads :
            /\ ~InCall(t) =>
                    \A l \in Layouts : ~HoldsExclusive(t, l) /\ ~HoldsShared(t, l)
            /\ Cardinality({l \in Layouts : HoldsExclusive(t, l) \/ HoldsShared(t, l)}) <= 1)
    /\ \A t \in Threads :
            (InCall(t) /\ th[t].op \in {"write", "read", "props"}) ~> (th[t].pc = "done")

\* a write has returned AlreadyCommitted and a read NotYetCommitted or a
\* media error, and no lock is held
LocksReleasedWitness ==
    /\ \A l \in Layouts : rwsem[l].wr = 0 /\ rwsem[l].rd = {}
    /\ \E t, u \in Threads :
        /\ DoneOn(t, "write") /\ th[t].ret = EALREADY
        /\ DoneOn(u, "read") /\ th[u].ret = EIO /\ th[u].xfer

\* C18: mblock_read issues the raw read only in its locked part, holding
\* the shared lock, with the committed flag set at that moment; while the
\* mblock is uncommitted no read has transferred or returned data, also
\* when a commit runs concurrently.
ReadOnlyCommitted ==
    [][\A t \in Threads :
        /\ (th'[t].op = "read" /\ th'[t].xfer /\ ~th[t].xfer) =>
                /\ th[t].pc = "r_locked"
                /\ HoldsShared(t, th[t].mbh)
                /\ PMD_LYT_COMMITTED \in layout[th[t].mbh].eld_state
        /\ (th'[t].op = "read" /\ ~Committed') =>
                (~th'[t].xfer /\ th'[t].data = <<>>)]_vars

\* a read that was called before the commit and took the lock after it has
\* returned the data
ReadOnlyCommittedWitness ==
    \E t \in Threads :
        /\ DoneOn(t, "read") /\ ~th[t].c0 /\ th[t].xfer
        /\ th[t].ret = OK /\ th[t].data # <<>>

AllocOps == {"alloc", "realloc", "find_get"}

\* C19: when mblock_alloc, mblock_realloc or mblock_find_get has returned,
\* the caller's handle holds a record exactly when the call returned
\* success; it is NULL after the internal-invariant error, after NotFound
\* and after an error of the directory; on success it is the record the
\* directory returned, which resolves as an mblock, and properties that
\* were asked for are a snapshot of that record.
HandleIffSuccess ==
    \A t \in Threads :
        (th[t].pc = "done" /\ th[t].op \in AllocOps) =>
            LET r == th[t]
            IN  /\ r.ret = OK <=> r.out \in Layouts
                /\ r.ret \in {EBUG, ENOENT, ENOSPC} => r.out = NULL_MBH
                /\ r.ret \in {OK, EINVAL, EBUG, ENOENT, ENOSPC}
                /\ r.ret = EBUG => r.op \in {"alloc", "realloc"}
                /\ (r.ret = ENOENT /\ r.op = "find_get") => mblock_objid(r.arg)
                /\ r.ret = OK =>
                        /\ r.out = r.mbh
                        /\ mblock_objid(layout[r.out].eld_objid)
                        /\ r.op # "alloc" => layout[r.out].eld_objid = r.arg
                        /\ r.prop # NoProps =>
                            /\ r.prop.mpr_objid = layout[r.out].eld_objid
                            /\ r.prop.mpr_alloc_cap = layout[r.out].cap
                            /\ r.prop.mpr_optimal_wrsz = layout[r.out].pdi_optiosz
                            /\ r.prop.mpr_write_len <= layout[r.out].eld_mblen
                            /\ r.prop.mpr_iscommitted =>
                                    PMD_LYT_COMMITTED \in layout[r.out].eld_state
                /\ r.ret # OK => r.prop = NoProps

\* a lookup has returned the mblock with the properties of its written
\* data, and an allocation has failed with the internal-invariant error
HandleIffSuccessWitness ==
    \E t, u \in Threads :
        /\ th[t].pc = "done" /\ th[t].op = "find_get" /\ th[t].ret = OK
        /\ th[t].out = MBLOCK_MBH /\ th[t].prop.mpr_write_len > 0
        /\ th[u].pc = "done" /\ th[u].op = "alloc" /\ th[u].ret = EBUG
        /\ th[u].out = NULL_MBH

\* C20: on a committed mblock every byte counted in written_len is durable:
\* no data of a successful write is still in the volatile cache of the
\* device, because the write carried the durable-write flag or completed
\* before the flush of the commit; also with writes running concurrently
\* with the commit.
DurableAtCommit ==
    \A l \in Layouts :
        PMD_LYT_COMMITTED \in layout[l].eld_state => ~layout[l].cached

====
